---- MODULE Spec2Model ----
(***************************************************************************)
(* A model of python-service/app.py: the answering-machine-detection       *)
(* service.  The process state is the Hugging Face model handle            *)
(* (hf_model, hf_processor) and the GEMINI_API_KEY environment variable;   *)
(* each HTTP handler is one action.  A handler's inputs (the uploaded      *)
(* file, the outcome of every call into a library or a remote service)     *)
(* are recorded in req, the calls it made, in order, in calls, and its     *)
(* HTTP response in resp.                                                  *)
(*                                                                         *)
(* Texts are strings, read character by character.  Numbers that the code  *)
(* holds as floats are exact decimal fractions [num, den].                 *)
(***************************************************************************)
EXTENDS Integers, Sequences, FiniteSets, TLC

VARIABLES hf_model, hf_processor, startup, api_key, endpoint, req, resp, calls, signal

vars == <<hf_model, hf_processor, startup, api_key, endpoint, req, resp, calls, signal>>

(***************************************************************************)
(* Bounds of the model.                                                    *)
(***************************************************************************)
\* The longest interleaved sample sequence of an uploaded WAV file.
MaxSamples == 4

(***************************************************************************)
(* Numbers.                                                                *)
(***************************************************************************)
Frac(n, d) == [num |-> n, den |-> d]

\* a <= b and a < b for fractions with positive denominators.
FracLe(a, b) == a.num * b.den <= b.num * a.den
FracLt(a, b) == a.num * b.den < b.num * a.den

\* Python's max(a, b): b only when it is strictly greater than a.
FracMax(a, b) == IF FracLt(a, b) THEN b ELSE a

RECURSIVE Pow10(_)
Pow10(n) == IF n = 0 THEN 1 ELSE 10 * Pow10(n - 1)

(***************************************************************************)
(* Python's str operations.                                                *)
(***************************************************************************)
Char(s, i) == SubSeq(s, i, i)

\* k in s
Contains(s, k) ==
  \E i \in 1..(Len(s) - Len(k) + 1) : SubSeq(s, i, i + Len(k) - 1) = k

UpperLetters == "ABCDEFGHIJKLMNOPQRSTUVWXYZ"
LowerLetters == "abcdefghijklmnopqrstuvwxyz"

LowerChar(c) ==
  IF \E i \in 1..Len(UpperLetters) : Char(UpperLetters, i) = c
  THEN Char(LowerLetters, CHOOSE i \in 1..Len(UpperLetters) : Char(UpperLetters, i) = c)
  ELSE c

\* s.lower()
RECURSIVE Lower(_)
Lower(s) == IF Len(s) = 0 THEN "" ELSE LowerChar(Char(s, 1)) \o Lower(SubSeq(s, 2, Len(s)))

IsSpace(c) == c \in {" ", "\n", "\t", "\r"}

\* s.strip()
RECURSIVE Strip(_)
Strip(s) ==
  IF Len(s) = 0 THEN ""
  ELSE IF IsSpace(Char(s, 1)) THEN Strip(SubSeq(s, 2, Len(s)))
  ELSE IF IsSpace(Char(s, Len(s))) THEN Strip(SubSeq(s, 1, Len(s) - 1))
  ELSE s

(***************************************************************************)
(* json.loads, for the texts re.search hands it.  A value is a record      *)
(* [kind, str, num, items]; a dict keeps its members as <<key, value>>     *)
(* pairs in the order read.  The escapes \b and \uXXXX and the literals    *)
(* NaN and Infinity occur in no text of the model and are not read.        *)
(***************************************************************************)
JStr(s) == [kind |-> "str", str |-> s, num |-> Frac(0, 1), items |-> <<>>]
JNum(n) == [kind |-> "num", str |-> "", num |-> n, items |-> <<>>]
JBool(b) == [kind |-> "bool", str |-> "", num |-> Frac(IF b THEN 1 ELSE 0, 1), items |-> <<>>]
JNull == [kind |-> "null", str |-> "", num |-> Frac(0, 1), items |-> <<>>]
JList(xs) == [kind |-> "list", str |-> "", num |-> Frac(0, 1), items |-> xs]
JDict(ms) == [kind |-> "dict", str |-> "", num |-> Frac(0, 1), items |-> ms]

Parsed(v, n) == [ok |-> TRUE, val |-> v, next |-> n]
ParseError == [ok |-> FALSE, val |-> JNull, next |-> 0]

At(s, i) == IF i >= 1 /\ i <= Len(s) THEN Char(s, i) ELSE ""

Digits == "0123456789"
IsDigit(c) == \E d \in 1..Len(Digits) : Char(Digits, d) = c
DigitVal(c) == (CHOOSE d \in 1..Len(Digits) : Char(Digits, d) = c) - 1

RECURSIVE SkipWs(_, _)
SkipWs(s, i) == IF IsSpace(At(s, i)) THEN SkipWs(s, i + 1) ELSE i

\* The run of digits at i: how many, their value, and the place after them.
RECURSIVE ScanDigits(_, _, _, _)
ScanDigits(s, i, cnt, acc) ==
  IF IsDigit(At(s, i)) THEN ScanDigits(s, i + 1, cnt + 1, 10 * acc + DigitVal(At(s, i)))
  ELSE [n |-> cnt, val |-> acc, next |-> i]

NoDigits(i) == [n |-> 0, val |-> 0, next |-> i]

\* The integer part at j: a single 0, or a run of digits.
WholeAt(s, j) ==
  IF At(s, j) = "0" THEN [n |-> 1, val |-> 0, next |-> j + 1] ELSE ScanDigits(s, j, 0, 0)

\* The fraction at k, if a point and a digit are there.
FractionAt(s, k) ==
  IF At(s, k) = "." /\ IsDigit(At(s, k + 1)) THEN ScanDigits(s, k + 1, 0, 0) ELSE NoDigits(k)

ExponentValue(neg, digits) ==
  [val |-> IF neg THEN 0 - digits.val ELSE digits.val, next |-> digits.next]

ExponentAt(s, k, d) ==
  IF At(s, k) \in {"e", "E"} /\ IsDigit(At(s, d))
  THEN ExponentValue(At(s, k + 1) = "-", ScanDigits(s, d, 0, 0))
  ELSE [val |-> 0, next |-> k]

\* The exponent at k, if any: its value and the place after it.
Exponent(s, k) == ExponentAt(s, k, IF At(s, k + 1) \in {"+", "-"} THEN k + 2 ELSE k + 1)

Scaled(mant, places, e) ==
  IF e >= 0 THEN Frac(mant * Pow10(e), Pow10(places))
  ELSE Frac(mant, Pow10(places) * Pow10(0 - e))

NumberValue(sign, whole, frac, ex) ==
  Parsed(JNum(Scaled(sign * (whole.val * Pow10(frac.n) + frac.val), frac.n, ex.val)), ex.next)

NumberExp(s, sign, whole, frac) == NumberValue(sign, whole, frac, Exponent(s, frac.next))

NumberFrac(s, sign, whole) ==
  IF whole.n = 0 THEN ParseError ELSE NumberExp(s, sign, whole, FractionAt(s, whole.next))

\* -?(0|[1-9]\d*)(\.\d+)?([eE][-+]?\d+)?
ParseNumber(s, i) ==
  IF At(s, i) = "-" THEN NumberFrac(s, -1, WholeAt(s, i + 1))
  ELSE NumberFrac(s, 1, WholeAt(s, i))

Unescape(c) ==
  CASE c = "n" -> "\n" [] c = "t" -> "\t" [] c = "r" -> "\r" [] c = "f" -> "\f"
    [] OTHER -> c

\* The characters of a string up to its closing quote, from place i.
RECURSIVE ScanString(_, _, _)
ScanString(s, i, acc) ==
  LET c == At(s, i) IN
  IF c = "" \/ c \in {"\n", "\t", "\r", "\f"} THEN ParseError
  ELSE IF c = "\"" THEN Parsed(JStr(acc), i + 1)
  ELSE IF c = "\\" THEN
    IF At(s, i + 1) \in {"\"", "\\", "/", "n", "t", "r", "f"}
    THEN ScanString(s, i + 2, acc \o Unescape(At(s, i + 1)))
    ELSE ParseError
  ELSE ScanString(s, i + 1, acc \o c)

ParseLiteral(s, i) ==
  IF SubSeq(s, i, i + 3) = "true" THEN Parsed(JBool(TRUE), i + 4)
  ELSE IF SubSeq(s, i, i + 4) = "false" THEN Parsed(JBool(FALSE), i + 5)
  ELSE IF SubSeq(s, i, i + 3) = "null" THEN Parsed(JNull, i + 4)
  ELSE ParseError

RECURSIVE ParseValue(_, _)
RECURSIVE ParseItems(_, _, _)
RECURSIVE ParseMembers(_, _, _)

ItemNext(s, items, j) ==
  IF At(s, j) = "," THEN ParseItems(s, SkipWs(s, j + 1), items)
  ELSE IF At(s, j) = "]" THEN Parsed(JList(items), j + 1)
  ELSE ParseError

ItemValue(s, acc, v) ==
  IF ~v.ok THEN ParseError ELSE ItemNext(s, Append(acc, v.val), SkipWs(s, v.next))

\* The items of a list after its "[", the first one at place i.
ParseItems(s, i, acc) == ItemValue(s, acc, ParseValue(s, i))

MemberNext(s, members, j) ==
  IF At(s, j) = "," THEN ParseMembers(s, SkipWs(s, j + 1), members)
  ELSE IF At(s, j) = "}" THEN Parsed(JDict(members), j + 1)
  ELSE ParseError

MemberValue(s, acc, name, v) ==
  IF ~v.ok THEN ParseError
  ELSE MemberNext(s, Append(acc, <<name, v.val>>), SkipWs(s, v.next))

MemberColon(s, acc, name, colon) ==
  IF At(s, colon) # ":" THEN ParseError
  ELSE MemberValue(s, acc, name, ParseValue(s, SkipWs(s, colon + 1)))

MemberKey(s, acc, key) ==
  IF ~key.ok THEN ParseError ELSE MemberColon(s, acc, key.val.str, SkipWs(s, key.next))

\* The members of a dict after its "{", the first key at place i.
ParseMembers(s, i, acc) ==
  IF At(s, i) # "\"" THEN ParseError ELSE MemberKey(s, acc, ScanString(s, i + 1, ""))

DictAt(s, j) ==
  IF At(s, j) = "}" THEN Parsed(JDict(<<>>), j + 1) ELSE ParseMembers(s, j, <<>>)

ListAt(s, j) ==
  IF At(s, j) = "]" THEN Parsed(JList(<<>>), j + 1) ELSE ParseItems(s, j, <<>>)

ParseValue(s, i) ==
  IF At(s, i) = "\"" THEN ScanString(s, i + 1, "")
  ELSE IF At(s, i) = "{" THEN DictAt(s, SkipWs(s, i + 1))
  ELSE IF At(s, i) = "[" THEN ListAt(s, SkipWs(s, i + 1))
  ELSE IF At(s, i) = "-" \/ IsDigit(At(s, i)) THEN ParseNumber(s, i)
  ELSE ParseLiteral(s, i)

LoadsEnd(s, v) == IF v.ok /\ SkipWs(s, v.next) = Len(s) + 1 THEN v ELSE ParseError

\* json.loads(s): the value, or a JSONDecodeError (ok = FALSE).
json_loads(s) == LoadsEnd(s, ParseValue(s, SkipWs(s, 1)))

LastOf(d, hits) ==
  IF hits = {} THEN <<>> ELSE <<d.items[CHOOSE i \in hits : \A h \in hits : h <= i][2]>>

\* d.get(key): the member read last under that key, as <<value>>, or <<>>.
DictGet(d, key) == LastOf(d, {i \in 1..Len(d.items) : d.items[i][1] = key})

\* The match that starts at i: up to the first "}" after it.
MatchFrom(s, i) ==
  <<SubSeq(s, i, CHOOSE a \in (i + 2)..Len(s) :
                   /\ Char(s, a) = "}"
                   /\ \A b \in (i + 2)..(a - 1) : Char(s, b) # "}")>>

FirstMatch(s, starts) ==
  IF starts = {} THEN <<>>
  ELSE MatchFrom(s, CHOOSE a \in starts : \A b \in starts : a <= b)

\* re.search(r'\{[^}]+\}', s): the leftmost match, as <<text>>, or <<>>.
re_search(s) ==
  FirstMatch(s, {i \in 1..Len(s) :
                   /\ Char(s, i) = "{"
                   /\ At(s, i + 1) \notin {"}", ""}
                   /\ \E j \in (i + 2)..Len(s) : Char(s, j) = "}"})

(***************************************************************************)
(* parse_wav.  A well-formed WAV container is its header fields and the    *)
(* bytes of its data chunk, which readframes(-1) returns whole.            *)
(***************************************************************************)
RECURSIVE Flatten(_)
Flatten(groups) == IF groups = <<>> THEN <<>> ELSE Head(groups) \o Flatten(Tail(groups))

\* The byte groups one sample of the given width is drawn from.
SampleBytes(w) ==
  CASE w = 1 -> {<<0>>, <<128>>, <<255>>}
    [] w = 2 -> {<<0, 0>>, <<0, 128>>, <<255, 127>>, <<255, 255>>}
    [] OTHER -> {<<1, 2, 3>>}

SeqsUpTo(S, n) == UNION {[1..k -> S] : k \in 0..n}

WavFiles ==
  { [nchannels |-> ch, sampwidth |-> w, framerate |-> r, frames |-> Flatten(g)] :
      <<ch, w, r, g>> \in
        { t \in {1, 2, 3} \X {1, 2, 3} \X {8000, 16000} \X
                UNION {SeqsUpTo(SampleBytes(w), MaxSamples) : w \in {1, 2, 3}} :
            /\ \A i \in 1..Len(t[4]) : t[4][i] \in SampleBytes(t[2])
            /\ Len(t[4]) % t[1] = 0 } }

\* np.frombuffer(frames, dtype=np.uint8)
FromBufferUint8(frames) == frames

\* One little-endian two's complement 16-bit value.
Int16(lo, hi) == IF hi >= 128 THEN lo + 256 * hi - 65536 ELSE lo + 256 * hi

\* np.frombuffer(frames, dtype=np.int16)
FromBufferInt16(frames) ==
  [k \in 1..(Len(frames) \div 2) |-> Int16(frames[2 * k - 1], frames[2 * k])]

\* audio_data[::2]
EveryOther(s) == [k \in 1..((Len(s) + 1) \div 2) |-> s[2 * k - 1]]

NoSignal == [ok |-> FALSE, error |-> "", audio_data |-> <<>>, sample_rate |-> 0]

\* Downmix that keeps both channels.
DownmixBothMutant(wav, data) == data

Downmix(wav, data) == IF wav.nchannels = 2 THEN EveryOther(data) ELSE data

parse_wav(wav) ==
  IF wav.sampwidth = 1 THEN
    [ok |-> TRUE, error |-> "",
     audio_data |-> Downmix(wav, [k \in 1..Len(wav.frames) |->
                       Frac(FromBufferUint8(wav.frames)[k] - 128, 128)]),
     sample_rate |-> wav.framerate]
  ELSE IF wav.sampwidth = 2 THEN
    [ok |-> TRUE, error |-> "",
     audio_data |-> Downmix(wav, [k \in 1..(Len(wav.frames) \div 2) |->
                       Frac(FromBufferInt16(wav.frames)[k], 32768)]),
     sample_rate |-> wav.framerate]
  ELSE
    [ok |-> FALSE, error |-> "Unsupported sample width", audio_data |-> <<>>,
     sample_rate |-> 0]

(***************************************************************************)
(* load_huggingface_model, run once by startup_event.  failAt is the step  *)
(* that raises: the import, either from_pretrained, eval, or none.         *)
(***************************************************************************)
Handle(m, p) == [hf_model |-> m, hf_processor |-> p]

LoadSteps == {"none", "import", "processor", "model", "eval"}

\* LoadExcept that leaves what was loaded before the failure.
LoadExceptKeepsMutant(h) == h

\* except Exception: both globals are reset.
LoadExcept(h) == Handle("None", "None")

load_huggingface_model(failAt) ==
  CASE failAt = "import" -> LoadExcept(Handle("None", "None"))
    [] failAt = "processor" -> LoadExcept(Handle("None", "None"))
    [] failAt = "model" -> LoadExcept(Handle("None", "loaded"))
    [] failAt = "eval" -> LoadExcept(Handle("loaded", "loaded"))
    [] OTHER -> Handle("loaded", "loaded")

(***************************************************************************)
(* HTTP responses.                                                         *)
(***************************************************************************)
NoResp == [status |-> 0]
NoReq == [kind |-> "none"]

HTTPException(code, text) == [status |-> code, detail |-> text]

Done(r, c, sig) == [resp |-> r, calls |-> c, signal |-> sig]

(***************************************************************************)
(* predict_huggingface.                                                    *)
(***************************************************************************)
TargetRate == 16000

Keywords == {"please", "leave", "message", "voicemail"}

\* Combine with the confident human vote tested before the keywords.
CombineVoteFirstMutant(transcription, predicted_class, confidence) ==
  IF predicted_class = 1 /\ FracLt(Frac(7, 10), confidence)
  THEN [label |-> "human", confidence |-> confidence]
  ELSE IF \E word \in Keywords : Contains(transcription, word)
  THEN [label |-> "voicemail", confidence |-> FracMax(confidence, Frac(85, 100))]
  ELSE IF predicted_class = 0 /\ FracLt(Frac(7, 10), confidence)
  THEN [label |-> "voicemail", confidence |-> confidence]
  ELSE [label |-> "human", confidence |-> confidence]

\* The keyword rule and the model's vote.
Combine(transcription, predicted_class, confidence) ==
  IF \E word \in Keywords : Contains(transcription, word)
  THEN [label |-> "voicemail", confidence |-> FracMax(confidence, Frac(85, 100))]
  ELSE IF predicted_class = 1 /\ FracLt(Frac(7, 10), confidence)
  THEN [label |-> "human", confidence |-> confidence]
  ELSE IF predicted_class = 0 /\ FracLt(Frac(7, 10), confidence)
  THEN [label |-> "voicemail", confidence |-> confidence]
  ELSE [label |-> "human", confidence |-> confidence]

hf_response(transcription, final, c, parsed) ==
  Done([status |-> 200, label |-> final.label, confidence |-> final.confidence,
        transcription |-> transcription], c, parsed)

classify(in, transcription, c, parsed) ==
  hf_response(transcription, Combine(transcription, in.predicted_class, in.confidence),
              c, parsed)

\* The processor, the model and batch_decode, after the resampling if any.
infer(in, c, parsed) ==
  IF ~in.inferOk THEN Done(HTTPException(500, "inference failed"), c, parsed)
  ELSE classify(in, Lower(in.decoded), c, parsed)

after_parse_wav(in, parsed) ==
  IF ~parsed.ok THEN Done(HTTPException(500, parsed.error), <<"read", "parse_wav">>, parsed)
  ELSE IF parsed.sample_rate # TargetRate
  THEN infer(in, <<"read", "parse_wav", "resample", "infer">>, parsed)
  ELSE infer(in, <<"read", "parse_wav", "infer">>, parsed)

\* in: [readOk, wav, inferOk, decoded, predicted_class, confidence]
predict_huggingface(model, processor, in) ==
  IF model = "None" \/ processor = "None"
  THEN Done(HTTPException(503, "Model not loaded"), <<>>, NoSignal)
  ELSE IF ~in.readOk
  THEN Done(HTTPException(500, "read failed"), <<"read">>, NoSignal)
  ELSE after_parse_wav(in, parse_wav(in.wav))

(***************************************************************************)
(* predict_gemini.                                                         *)
(***************************************************************************)
\* KeyMissing that takes an empty key for a key.
KeyMissingOnlyNoneMutant(key) == key = <<>>

\* not gemini_api_key: the variable is unset (<<>>) or empty.
KeyMissing(key) == key = <<>> \/ key = <<"">>

PyDict(label, confidence, reasoning) ==
  JDict(<< <<"label", JStr(label)>>, <<"confidence", JNum(confidence)>>,
           <<"reasoning", JStr(reasoning)>> >>)

\* The keyword reading of a response that holds no brace-delimited text.
text_result(response_text) ==
  IF Contains(Lower(response_text), "voicemail") \/ Contains(Lower(response_text), "machine")
  THEN PyDict("voicemail", Frac(75, 100), response_text)
  ELSE IF Contains(Lower(response_text), "human")
  THEN PyDict("human", Frac(80, 100), response_text)
  ELSE PyDict("human", Frac(5, 10), response_text)

Raised(c, text) == [ok |-> FALSE, calls |-> c, error |-> text, result |-> JNull]
Returned(c, r) == [ok |-> TRUE, calls |-> c, error |-> "", result |-> r]

\* genai.delete_file, once a result is there.
cleanup(in, result) ==
  IF ~result.ok THEN Raised(<<"upload", "generate">>, "JSONDecodeError")
  ELSE IF in.failAt = "delete"
  THEN Raised(<<"upload", "generate", "delete">>, "delete failed")
  ELSE Returned(<<"upload", "generate", "delete">>, result.val)

derive(in, response_text, json_match) ==
  IF json_match # <<>> THEN cleanup(in, json_loads(json_match[1]))
  ELSE cleanup(in, Parsed(text_result(response_text), 0))

parse_response(in, response_text) == derive(in, response_text, re_search(response_text))

\* The inner try block.  in: [failAt, text, fallbackOk]
primary_attempt(in) ==
  IF in.failAt = "upload" THEN Raised(<<"upload">>, "upload failed")
  ELSE IF in.failAt = "generate" THEN Raised(<<"upload", "generate">>, "generate failed")
  ELSE IF in.failAt = "text" THEN Raised(<<"upload", "generate">>, "response has no text")
  ELSE parse_response(in, Strip(in.text))

\* fallback that calls a second time when its call fails, and answers anyway.
FallbackRetriesMutant(in, attempt) ==
  IF in.fallbackOk
  THEN Returned(Append(attempt.calls, "generate_fallback"),
                PyDict("human", Frac(5, 10), "Fallback due to API error: " \o attempt.error))
  ELSE Returned(attempt.calls \o <<"generate_fallback", "generate_fallback">>,
                PyDict("human", Frac(5, 10), "Fallback due to API error: " \o attempt.error))

\* The inner except block.
fallback(in, attempt) ==
  IF in.fallbackOk
  THEN Returned(Append(attempt.calls, "generate_fallback"),
                PyDict("human", Frac(5, 10), "Fallback due to API error: " \o attempt.error))
  ELSE Raised(Append(attempt.calls, "generate_fallback"), "fallback generate failed")

FloatEnd(u, n) == IF n.ok /\ n.next = Len(u) + 1 THEN <<n.val.num>> ELSE <<>>

FloatUnsigned(u) == FloatEnd(u, ParseNumber(u, 1))

FloatStripped(t) == FloatUnsigned(IF At(t, 1) = "+" THEN SubSeq(t, 2, Len(t)) ELSE t)

\* float(s) of a string: the decimal it spells, as <<number>>, or <<>> (ValueError).
\* No text of the model spells inf, nan, a bare point or an underscore.
float_of_str(s) == FloatStripped(Strip(s))

\* float(v): <<number>>, or <<>> when it raises.
float(v) ==
  CASE v.kind \in {"num", "bool"} -> <<v.num>>
    [] v.kind = "str" -> float_of_str(v.str)
    [] OTHER -> <<>>

\* Normalize that returns whatever label was parsed.
NormalizeKeepsMutant(label) == label

\* if label not in ["human", "voicemail"]: label = "human"
Normalize(label) == IF label \notin {"human", "voicemail"} THEN "human" ELSE label

gemini_response(result, c, label, confidence) ==
  IF label.kind # "str"
  THEN Done(HTTPException(500, "Gemini API error: no attribute lower"), c, NoSignal)
  ELSE IF confidence = <<>>
  THEN Done(HTTPException(500, "Gemini API error: float() failed"), c, NoSignal)
  ELSE Done([status |-> 200, label |-> Normalize(Lower(label.str)),
             confidence |-> confidence[1], rawData |-> result], c, NoSignal)

\* result.get(key, default)
GetOr(found, default) == IF found = <<>> THEN default ELSE found[1]

\* "Map to expected format" and the JSONResponse.
map_result(result, c) ==
  gemini_response(result, c, GetOr(DictGet(result, "label"), JStr("human")),
                  float(GetOr(DictGet(result, "confidence"), JNum(Frac(5, 10)))))

GeminiFailures == {"none", "sdk", "read", "upload", "generate", "text", "delete"}

\* The outer try block, after the inner one.
finish(outcome) ==
  IF ~outcome.ok
  THEN Done(HTTPException(500, "Gemini API error: " \o outcome.error),
            <<"read">> \o outcome.calls, NoSignal)
  ELSE map_result(outcome.result, <<"read">> \o outcome.calls)

attempted(in, attempt) == IF attempt.ok THEN finish(attempt) ELSE finish(fallback(in, attempt))

\* in: [failAt, text, fallbackOk]
predict_gemini(key, in) ==
  IF KeyMissing(key)
  THEN Done(HTTPException(503, "Gemini API key not configured"), <<>>, NoSignal)
  ELSE IF in.failAt = "sdk"
  THEN Done(HTTPException(500, "Gemini API error: import failed"), <<>>, NoSignal)
  ELSE IF in.failAt = "read"
  THEN Done(HTTPException(500, "Gemini API error: read failed"), <<"read">>, NoSignal)
  ELSE attempted(in, primary_attempt(in))

(***************************************************************************)
(* The inputs of the model.                                                *)
(***************************************************************************)
ApiKeys == {<<>>, <<"">>, <<"AIza-key">>}

\* One-frame mono uploads: one of each width and rate.
UploadedWavs ==
  {w \in WavFiles : w.nchannels = 1 /\ Len(w.frames) = w.sampwidth /\ w.frames[1] <= 1}

DecodedTexts == {"PLEASE LEAVE A MESSAGE", "hello there", "", "Voicemails", "pleas leav messag"}

Confidences == {Frac(3, 10), Frac(7, 10), Frac(71, 100), Frac(85, 100), Frac(9, 10), Frac(1, 1)}

HfInputs ==
  [readOk : BOOLEAN, wav : UploadedWavs, inferOk : BOOLEAN, decoded : DecodedTexts,
   predicted_class : {0, 1}, confidence : Confidences]

ResponseTexts ==
  { "{\"label\": \"voicemail\", \"confidence\": 0.9, \"reasoning\": \"greeting\"}",
    "Sure! {\"label\":\"Human\",\"confidence\":0.8}",
    "{\"label\":\"Voicemail\",\"confidence\":1}",
    "{\"label\":\"maybe\",\"confidence\":0.4}",
    "{\"confidence\": 1.5}",
    "{\"label\":\"human\",\"confidence\":-0.2}",
    " {\"label\":\"voicemail\"}\n",
    "{\"label\": null, \"confidence\": 0.5}",
    "{\"label\":\"human\",\"confidence\":\"high\"}",
    "{\"label\":\"voicemail\",\"confidence\":\"0.95\"}",
    "This is a voicemail greeting.",
    "A human or an answering Machine",
    "A Human answered",
    "unclear",
    "{} human",
    "{voicemail}",
    "a machine {\"label\":\"voicemail\",\"meta\":{\"a\":1}}" }

GeminiInputs == [failAt : GeminiFailures, text : ResponseTexts, fallbackOk : BOOLEAN]

(***************************************************************************)
(* The service: startup, then one request at a time.                       *)
(***************************************************************************)
Init ==
  /\ hf_model = "None"
  /\ hf_processor = "None"
  /\ startup = "pending"
  /\ api_key \in ApiKeys
  /\ endpoint = "idle"
  /\ req = NoReq
  /\ resp = NoResp
  /\ calls = <<>>
  /\ signal = NoSignal

\* The handler has run on the request in and ended with out.
Handled(in, out) ==
  /\ req' = in
  /\ resp' = out.resp
  /\ calls' = out.calls
  /\ signal' = out.signal

Loaded(handle) ==
  /\ hf_model' = handle.hf_model
  /\ hf_processor' = handle.hf_processor

startup_event ==
  /\ startup = "pending"
  /\ \E failAt \in LoadSteps :
       /\ Loaded(load_huggingface_model(failAt))
       /\ startup' = IF failAt = "none" THEN "loaded" ELSE "failed"
  /\ UNCHANGED <<api_key, endpoint, req, resp, calls, signal>>

PredictHuggingface ==
  /\ startup # "pending"
  /\ endpoint = "idle"
  /\ \E in \in HfInputs : Handled(in, predict_huggingface(hf_model, hf_processor, in))
  /\ endpoint' = "/api/predict"
  /\ UNCHANGED <<hf_model, hf_processor, startup, api_key>>

PredictGemini ==
  /\ startup # "pending"
  /\ endpoint = "idle"
  /\ \E in \in GeminiInputs : Handled(in, predict_gemini(api_key, in))
  /\ endpoint' = "/api/gemini/predict"
  /\ UNCHANGED <<hf_model, hf_processor, startup, api_key>>

\* The response is sent; nothing of the request is kept.
Complete ==
  /\ endpoint \in {"/api/predict", "/api/gemini/predict"}
  /\ endpoint' = "idle"
  /\ req' = NoReq
  /\ resp' = NoResp
  /\ calls' = <<>>
  /\ signal' = NoSignal
  /\ UNCHANGED <<hf_model, hf_processor, startup, api_key>>

Next == startup_event \/ PredictHuggingface \/ PredictGemini \/ Complete

Spec == Init /\ [][Next]_vars

(***************************************************************************)
(* The decoder on its own: every WAV file of the bounds, decoded once.     *)
(***************************************************************************)
InitWav ==
  /\ hf_model = "None"
  /\ hf_processor = "None"
  /\ startup = "pending"
  /\ api_key = <<>>
  /\ endpoint = "idle"
  /\ req \in {[wav |-> w] : w \in WavFiles}
  /\ resp = NoResp
  /\ calls = <<>>
  /\ signal = NoSignal

ParseWav ==
  /\ endpoint = "idle"
  /\ endpoint' = "parse_wav"
  /\ signal' = parse_wav(req.wav)
  /\ UNCHANGED <<hf_model, hf_processor, startup, api_key, req, resp, calls>>

NextWav == ParseWav

SpecWav == InitWav /\ [][NextWav]_vars

(***************************************************************************)
(* The claims.                                                             *)
(***************************************************************************)
Local == "/api/predict"
Remote == "/api/gemini/predict"

Count(c, names) == Cardinality({i \in DOMAIN c : c[i] \in names})
InferenceCalls == Count(calls, {"generate", "generate_fallback"})
Made(name) == \E i \in DOMAIN calls : calls[i] = name

HasKeyword(t) ==
  Contains(t, "please") \/ Contains(t, "leave") \/ Contains(t, "message")
    \/ Contains(t, "voicemail")

\* C1: every successful local response follows the precedence keyword match >
\* confident voicemail vote > confident human vote > default human: a
\* transcription holding "please", "leave", "message" or "voicemail" is labelled
\* voicemail with confidence max(c, 0.85), whatever the model voted; otherwise
\* the label is voicemail exactly when predicted_class = 0 and c > 0.7, human
\* in every other case, and the confidence is c unchanged.
C1_CombinerPrecedence ==
  (endpoint = Local /\ resp.status = 200) =>
    IF HasKeyword(resp.transcription)
    THEN /\ resp.label = "voicemail"
         /\ resp.confidence \in {req.confidence, Frac(85, 100)}
         /\ FracLe(req.confidence, resp.confidence)
         /\ FracLe(Frac(85, 100), resp.confidence)
    ELSE /\ resp.confidence = req.confidence
         /\ resp.label \in {"human", "voicemail"}
         /\ resp.label = "voicemail" <=>
              (req.predicted_class = 0 /\ FracLt(Frac(7, 10), req.confidence))

C1_Witness ==
  /\ endpoint = Local
  /\ resp.status = 200
  /\ Contains(resp.transcription, "please")
  /\ req.predicted_class = 1
  /\ req.confidence = Frac(9, 10)
  /\ resp.label = "voicemail"
  /\ resp.confidence = Frac(9, 10)

\* C2: a remote request makes at most two inference calls; when its primary
\* attempt fails (upload, inference call, reading or parsing the response, or
\* cleanup) it makes exactly one fallback inference call, its last call; if the
\* fallback call succeeds the response is 200 with label human, confidence 0.5
\* and a reasoning carrying the error text, and if it fails the response is 500.
C2_OneFallbackThenError ==
  endpoint = Remote =>
    /\ InferenceCalls <= 2
    /\ (~KeyMissing(api_key) /\ req.failAt \in {"upload", "generate", "text"}) =>
         ~primary_attempt(req).ok
    /\ (~KeyMissing(api_key) /\ req.failAt \notin {"sdk", "read"}
          /\ ~primary_attempt(req).ok) =>
         /\ Count(calls, {"generate_fallback"}) = 1
         /\ calls[Len(calls)] = "generate_fallback"
         /\ req.fallbackOk =>
              /\ resp.status = 200
              /\ resp.label = "human"
              /\ resp.confidence = Frac(5, 10)
              /\ Contains(DictGet(resp.rawData, "reasoning")[1].str,
                          primary_attempt(req).error)
         /\ ~req.fallbackOk => resp.status = 500

C2_Witness ==
  /\ endpoint = Remote
  /\ req.failAt = "generate"
  /\ ~req.fallbackOk
  /\ calls = <<"read", "upload", "generate", "generate_fallback">>
  /\ resp.status = 500

\* C3: with GEMINI_API_KEY unset or empty a remote request ends in 503 having
\* made no call at all: no read of the upload, no upload_file, no
\* generate_content, no delete_file.
C3_NoCallWithoutKey ==
  (endpoint = Remote /\ api_key \in {<<>>, <<"">>}) =>
    resp.status = 503 /\ calls = <<>>

C3_Witness ==
  /\ endpoint = Remote
  /\ api_key = <<"">>
  /\ req.failAt = "none"
  /\ resp.status = 503

\* The label and confidence the keyword reading gives for a lower-cased text.
KeywordReading(t, label, confidence) ==
  IF Contains(t, "voicemail") \/ Contains(t, "machine")
  THEN label = "voicemail" /\ confidence = Frac(75, 100)
  ELSE IF Contains(t, "human")
  THEN label = "human" /\ confidence = Frac(80, 100)
  ELSE label = "human" /\ confidence = Frac(5, 10)

NoJsonParsed(t) == re_search(t) = <<>> \/ ~json_loads(re_search(t)[1]).ok

\* C4: when every call of a remote request succeeds and no JSON object can be
\* parsed from the response text (no brace-delimited candidate, or a candidate
\* that is not valid JSON), the response is the keyword reading of the
\* lower-cased text: "voicemail" or "machine" gives voicemail at 0.75, else
\* "human" gives human at 0.80, else human at 0.5.
C4_UnparsedTextReadByKeywords ==
  (endpoint = Remote /\ ~KeyMissing(api_key) /\ req.failAt = "none"
     /\ NoJsonParsed(Strip(req.text))) =>
    /\ resp.status = 200
    /\ KeywordReading(Lower(Strip(req.text)), resp.label, resp.confidence)

\* C5 as amended: every successful response carries the label human or
\* voicemail; a remote response's label is the parsed label lower-cased when
\* that is human or voicemail, and human when it is anything else or missing.
C5_LabelLowercasedOrHuman ==
  (endpoint \in {Local, Remote} /\ resp.status = 200) =>
    /\ resp.label \in {"human", "voicemail"}
    /\ endpoint = Remote =>
         IF DictGet(resp.rawData, "label") = <<>> THEN resp.label = "human"
         ELSE IF Lower(DictGet(resp.rawData, "label")[1].str) \in {"human", "voicemail"}
         THEN resp.label = Lower(DictGet(resp.rawData, "label")[1].str)
         ELSE resp.label = "human"

C5_Witness ==
  /\ endpoint = Remote
  /\ resp.status = 200
  /\ DictGet(resp.rawData, "label") = <<JStr("Voicemail")>>
  /\ resp.label = "voicemail"

\* C5 as stated: every successful response carries the label human or
\* voicemail, and a remote response whose parsed label is anything other than
\* exactly "human" or "voicemail", or is missing, carries human.
C5_Original ==
  (endpoint \in {Local, Remote} /\ resp.status = 200) =>
    /\ resp.label \in {"human", "voicemail"}
    /\ endpoint = Remote =>
         (DictGet(resp.rawData, "label") \notin {<<JStr("human")>>, <<JStr("voicemail")>>}
            => resp.label = "human")

\* C6: once load_huggingface_model has failed, the handle is absent in every
\* state, and every local request ends in 503 having read, decoded and
\* classified nothing.
C6_FailedLoadStaysAbsent ==
  startup = "failed" =>
    /\ hf_model = "None"
    /\ hf_processor = "None"
    /\ endpoint = Local => (resp.status = 503 /\ calls = <<>> /\ signal = NoSignal)

C6_Witness ==
  /\ startup = "failed"
  /\ endpoint = Local
  /\ req.readOk
  /\ req.inferOk
  /\ resp.status = 503

InUnitRange(a) == FracLe(Frac(0, 1), a) /\ FracLe(a, Frac(1, 1))

\* C7: every successful response, local or remote, has a confidence in [0, 1].
C7_ConfidenceInUnitRange ==
  (endpoint \in {Local, Remote} /\ resp.status = 200) => InUnitRange(resp.confidence)

\* The decoded value x is the reference value of sample k of the interleaved
\* sequence: (v - 128)/128 of the byte v, or v/32768 of the little-endian
\* two's complement 16-bit v.
IsReferenceSample(wav, k, x) ==
  IF wav.sampwidth = 1 THEN x = Frac(wav.frames[k] - 128, 128)
  ELSE /\ x.den = 32768
       /\ x.num \in -32768..32767
       /\ (x.num - (wav.frames[2 * k - 1] + 256 * wav.frames[2 * k])) % 65536 = 0

\* C8: parse_wav is the reference decoder: widths 1 and 2 decode every sample
\* to its reference value, in [-1, 1], at the header's rate; with 2 channels the
\* output is the samples at the even indices 0, 2, 4, ... of the interleaved
\* sequence, otherwise the whole sequence; any other width raises and returns
\* no signal.
C8_ParseWavIsReference ==
  endpoint = "parse_wav" =>
    IF req.wav.sampwidth \in {1, 2}
    THEN /\ signal.ok
         /\ signal.sample_rate = req.wav.framerate
         /\ \A k \in DOMAIN signal.audio_data :
              /\ 0 - signal.audio_data[k].den <= signal.audio_data[k].num
              /\ signal.audio_data[k].num <= signal.audio_data[k].den
         /\ IF req.wav.nchannels = 2
            THEN /\ Len(signal.audio_data) =
                      (Len(req.wav.frames) \div req.wav.sampwidth + 1) \div 2
                 /\ \A k \in DOMAIN signal.audio_data :
                      IsReferenceSample(req.wav, 2 * k - 1, signal.audio_data[k])
            ELSE /\ Len(signal.audio_data) = Len(req.wav.frames) \div req.wav.sampwidth
                 /\ \A k \in DOMAIN signal.audio_data :
                      IsReferenceSample(req.wav, k, signal.audio_data[k])
    ELSE ~signal.ok /\ signal.audio_data = <<>>

C8_Witness ==
  /\ endpoint = "parse_wav"
  /\ req.wav.nchannels = 2
  /\ req.wav.sampwidth = 2
  /\ req.wav.frames = <<0, 128, 255, 127, 255, 255, 0, 0>>
  /\ signal.audio_data = <<Frac(-32768, 32768), Frac(-1, 32768)>>

\* C9: a remote request whose upload succeeded attempts delete_file before it
\* completes, on every path.
C9_UploadAlwaysReleased ==
  (endpoint = Remote /\ Made("upload") /\ req.failAt # "upload") => Made("delete")

\* C10: when upload and primary inference succeeded and a result was derived, a
\* failing delete_file leaves the response as it is with a working delete_file
\* (same status, label and confidence) and causes no second inference call.
C10_DeleteFailureHarmless ==
  (endpoint = Remote /\ req.failAt = "delete" /\ Made("delete")) =>
    /\ InferenceCalls = 1
    /\ resp.status = predict_gemini(api_key, [req EXCEPT !.failAt = "none"]).resp.status
    /\ resp.status = 200 =>
         /\ resp.label = predict_gemini(api_key, [req EXCEPT !.failAt = "none"]).resp.label
         /\ resp.confidence =
              predict_gemini(api_key, [req EXCEPT !.failAt = "none"]).resp.confidence

====
